---- MODULE Spec2Model ----
(***************************************************************************)
(* Request dispatch, non-blocking job tasks, job-record files and reply    *)
(* sends of lib/src/request_processor.cc.                                  *)
(*                                                                         *)
(* One dispatching thread runs RequestProcessor::processRequest for one    *)
(* request after the other; every non-blocking request gets a thread that  *)
(* runs nonBlockingActionTask concurrently.  Each connector send and each  *)
(* file write is one step, so that every interleaving of the dispatching   *)
(* thread and the tasks is a behaviour of the model.                       *)
(***************************************************************************)
EXTENDS Integers, Sequences, FiniteSets, TLC

VARIABLES
    requests,          \* the ActionRequests handed to processRequest so far
    dpc,               \* position of the dispatching thread
    err_msg,           \* processNonBlockingRequest's local err_msg
    caught,            \* what() of the request_error in flight to the top-level catch
    spool,             \* spool_dir_: per job id, the results directory and its files
    results_storage,   \* job ids whose ResultsStorage constructor has returned
    task,              \* per request, the thread running nonBlockingActionTask
    done,              \* per request, the std::atomic<bool> made at line 332
    thread_container,  \* requests whose thread and flag thread_container_ holds
    sent,              \* per request, the connector_ptr_->send attempts, in order
    connection_error,  \* the request and thread of the last send that raised
    terminated         \* std::terminate was called: the process is gone

vars == <<requests, dpc, err_msg, caught, spool, results_storage, task, done,
          thread_container, sent, connection_error, terminated>>

\* Number of requests handed to processRequest in one behaviour.
MaxRequests == 2

Jobs == 1..MaxRequests

\* ---------------------------------------------------------------- inputs

RequestTypes == {"Blocking", "NonBlocking"}

\* request.sender(), request.transactionId() and request.paramsTxt() of the
\* i-th request: every request has its own sender and transaction, and the
\* requests alternate between no parameters and some.
Sender(i) == "cth://controller/" \o ToString(i)
TransactionId(i) == "tx-" \o ToString(i)
ParamsTxt(i) == IF i % 2 = 1 THEN "{\"x\":1}" ELSE ""

\* ActionRequest, as built by the caller; request i gets job id i (UUID::getUUID
\* is fresh for every call).  notify_outcome is read by the task alone (line
\* 124), so it is left false in blocking requests.
ActionRequests(i) ==
    [id : {i}, transactionId : {TransactionId(i)}, sender : {Sender(i)},
     module : {"foo"}, action : {"bar"}, paramsTxt : {ParamsTxt(i)},
     type : {"NonBlocking"}, notify_outcome : BOOLEAN]
    \cup
    [id : {i}, transactionId : {TransactionId(i)}, sender : {Sender(i)},
     module : {"foo"}, action : {"bar"}, paramsTxt : {ParamsTxt(i)},
     type : {"Blocking"}, notify_outcome : {FALSE}]

\* What Module::executeAction can return.
ActionOutcomes ==
    [type : {"External"}, stdout : {"X"}, stderr : {"", "E"}, results : {"X"}]
    \cup [type : {"Internal"}, stdout : {""}, stderr : {""},
          results : {"{\"os\":\"linux\"}"}]

\* what() of the request_error executeAction can raise: any text, the empty
\* one included.
ExecErrors == {"no such action", ""}
\* what() of the file_error FileUtils::writeToFile can raise.
FileErrors == {"disk full"}
\* what() of the exception a failing std::thread start raises.
ThreadErrors == {"Resource temporarily unavailable"}
\* Timer::elapsedSeconds, in whole seconds.
ElapsedSeconds == {2}

\* ActionOutcome outcome {} (line 119).
EmptyOutcome == [type |-> "Internal", stdout |-> "", stderr |-> "", results |-> ""]

\* line 65: what outcome.type can read.  Nothing in this file gives the type of
\* the outcome of line 119 a value, so either branch can be taken for it.
OutcomeTypes(outcome) ==
    IF outcome = EmptyOutcome THEN {"External", "Internal"} ELSE {outcome.type}

\* ---------------------------------------------------------------- files

FileNames == {"stdout", "stderr", "status"}

\* CthunClient::DataContainer action_status {} before initialize fills it.
EmptyStatus ==
    [module |-> "", action |-> "", status |-> "", duration |-> "", input |-> ""]

\* A results directory that does not exist yet.
NoDirectory ==
    [dir |-> FALSE, present |-> {}, stdout |-> "", stderr |-> "",
     status |-> EmptyStatus]

\* FileUtils::writeToFile(text, path): the whole file is replaced.
writeToFile(d, name, text) ==
    [d EXCEPT !.present = @ \cup {name}, ![name] = text]

\* ResultsStorage::initialize: the status document it builds.
InitialStatus(request) ==
    [module |-> request.module,
     action |-> request.action,
     status |-> "running",
     duration |-> "0 s",
     input |-> IF request.paramsTxt # "" THEN request.paramsTxt ELSE "none"]

\* Mutant: write records the duration and leaves the status as it was.
CompletedStatus_Running(action_status, duration) ==
    [action_status EXCEPT !.duration = duration]

\* ResultsStorage::write: the status document it builds.
CompletedStatus(action_status, duration) ==
    [action_status EXCEPT !.status = "completed", !.duration = duration]

\* line 135: std::to_string(timer.elapsedSeconds()) + " s"
DurationText(seconds) == ToString(seconds) \o " s"

\* lines 75-76: the failure text write puts in the stderr artifact.
FailureText(module, action, exec_error) ==
    "Failed to execute '" \o module \o " " \o action \o "': " \o exec_error \o "\n"

\* ---------------------------------------------------------------- replies

\* One connector_ptr_->send call: the endpoints, the message type and the
\* data.  "by" records the thread that made the call.
SendAttempt(by, endpoints, type, data) ==
    [by |-> by, to |-> endpoints, type |-> type, data |-> data]

\* Mutant: the send is tried again when the transport raised.
ConnectorSend_Retry(log, attempt, ok) ==
    IF ok THEN Append(log, attempt) ELSE Append(Append(log, attempt), attempt)

\* connector_ptr_->send inside a reply operation's try block: the call is made
\* once, whether the transport delivers (ok) or raises connection_error.
ConnectorSend(log, attempt, ok) == Append(log, attempt)

RPCErrorData(request, description) ==
    [transaction_id |-> request.transactionId, id |-> request.id,
     description |-> description]

BlockingResponseData(request, results) ==
    [transaction_id |-> request.transactionId, results |-> results]

NonBlockingResponseData(request, results, job_id) ==
    [transaction_id |-> request.transactionId, job_id |-> job_id,
     results |-> results]

\* Mutant: the success flag does not look at the error text.
ProvisionalData_AlwaysSuccess(request, job_id, error) ==
    [transaction_id |-> request.transactionId, success |-> TRUE,
     job_id |-> job_id, error |-> error]

\* lines 254-260; the "error" entry is set only for a non-empty error text, so
\* an empty text here stands for the absent entry.
ProvisionalData(request, job_id, error) ==
    [transaction_id |-> request.transactionId, success |-> (error = ""),
     job_id |-> job_id, error |-> error]

\* Mutant: the reply also goes to the broker.
Endpoints_WithBroker(request) == <<request.sender, "cth://server">>

\* std::vector<std::string> { request.sender() }
Endpoints(request) == <<request.sender>>

\* ---------------------------------------------------------------- exceptions

\* The exception classes the code throws and catches, each with its bases.
ExceptionBases(type) ==
    CASE type = "request_error" ->
            {"request_error", "agent_error", "std::exception"}
      [] type = "request_processing_error" ->
            {"request_processing_error", "request_error", "agent_error",
             "std::exception"}
      [] type = "file_error" -> {"file_error", "agent_error", "std::exception"}
      [] type = "connection_error" -> {"connection_error", "std::exception"}
      [] type = "std::system_error" -> {"std::system_error", "std::exception"}

\* Whether a handler catch (handler&) takes an exception of class type.
Catches(handler, type) == handler \in ExceptionBases(type)

\* processRequest's try/catch (lines 280-292): where an exception leaving
\* processBlockingRequest or processNonBlockingRequest takes the dispatcher.
TopLevelHandler(type) ==
    IF Catches("request_error", type) THEN "catch" ELSE "escaped"

\* The handlers of the spawn try block (lines 342-352): the text err_msg gets.
SpawnErrorText(type, what) ==
    IF Catches("file_error", type)
    THEN "failed to initialize result files: " \o what
    ELSE "failed to start action task: " \o what

\* Mutant: the handlers return from processNonBlockingRequest.
AfterSpawnError_Return == "idle"

\* Mutant: the handlers pass the failure on as a request error.
AfterSpawnError_Rethrow == "catch"

\* lines 342-355: both handlers of the spawn try block fall through to the
\* provisional reply of line 355.
AfterSpawnError == "provisional"

\* Mutant: the handler stores the error text and leaves the reply out.
TaskHandler_NoReply(type) ==
    IF Catches("request_error", type) THEN "write_status" ELSE "aborted"

\* nonBlockingActionTask's try/catch (lines 121-132) and what follows an
\* exception raised inside it: the handler, or std::terminate for an exception
\* that leaves the thread function.
TaskHandler(type) ==
    IF Catches("request_error", type) THEN "reply_error" ELSE "aborted"

\* Mutant: the response is sent whatever notify_outcome says.
AfterExecute_AlwaysNotify(notify_outcome) == "reply_nb"

\* Mutant: without notify_outcome the task returns without storing results.
AfterExecute_SkipWrite(notify_outcome) ==
    IF notify_outcome THEN "reply_nb" ELSE "set_done"

\* lines 122-128: where the task goes when executeAction has returned.
AfterExecute(notify_outcome) ==
    IF notify_outcome THEN "reply_nb" ELSE "write_status"

\* ---------------------------------------------------------------- state

NoConnectionError == [request |-> 0, by |-> "none"]

\* A job without a thread.  "job_id" is the task's job_id argument, which also
\* names the directory its ResultsStorage copy writes to (lines 51-53, 337);
\* "raised" records that executeAction raised, "writes" counts the calls of
\* ResultsStorage::write.
NoTask ==
    [pc |-> "none", job_id |-> 0, exec_error |-> "", raised |-> FALSE,
     outcome |-> EmptyOutcome, action_status |-> EmptyStatus, writes |-> 0]

Init ==
    /\ requests = <<>>
    /\ dpc = "idle"
    /\ err_msg = ""
    /\ caught = ""
    /\ spool = [j \in Jobs |-> NoDirectory]
    /\ results_storage = {}
    /\ task = [j \in Jobs |-> NoTask]
    /\ done = [j \in Jobs |-> FALSE]
    /\ thread_container = {}
    /\ sent = [j \in Jobs |-> <<>>]
    /\ connection_error = NoConnectionError
    /\ terminated = FALSE

\* What Connector::send can do: deliver (TRUE), or raise connection_error.
Transport == BOOLEAN

\* The reply operations catch connection_error, log it and return (lines
\* 195-200, 217-221, 242-247, 271-275): the last such log entry.
LogError(r, by, ok) ==
    IF ok THEN connection_error ELSE [request |-> r, by |-> by]

\* RequestProcessor::replyRPCError (lines 180-201), called by thread "by".
replyRPCError(r, by, description, ok) ==
    /\ sent' = [sent EXCEPT ![r] = ConnectorSend(@,
                   SendAttempt(by, Endpoints(requests[r]), "rpc_error",
                               RPCErrorData(requests[r], description)), ok)]
    /\ connection_error' = LogError(r, by, ok)

\* RequestProcessor::replyBlockingResponse (lines 203-222).
replyBlockingResponse(r, results, ok) ==
    /\ sent' = [sent EXCEPT ![r] = ConnectorSend(@,
                   SendAttempt("dispatcher", Endpoints(requests[r]),
                               "blocking_response",
                               BlockingResponseData(requests[r], results)), ok)]
    /\ connection_error' = LogError(r, "dispatcher", ok)

\* RequestProcessor::replyNonBlockingResponse (lines 224-248).
replyNonBlockingResponse(r, results, job_id, ok) ==
    /\ sent' = [sent EXCEPT ![r] = ConnectorSend(@,
                   SendAttempt("task", Endpoints(requests[r]),
                               "non_blocking_response",
                               NonBlockingResponseData(requests[r], results,
                                                       job_id)), ok)]
    /\ connection_error' = LogError(r, "task", ok)

\* RequestProcessor::replyProvisionalResponse (lines 250-276).
replyProvisionalResponse(r, job_id, error, ok) ==
    /\ sent' = [sent EXCEPT ![r] = ConnectorSend(@,
                   SendAttempt("dispatcher", Endpoints(requests[r]),
                               "provisional_response",
                               ProvisionalData(requests[r], job_id, error)), ok)]
    /\ connection_error' = LogError(r, "dispatcher", ok)

\* The request the dispatching thread is processing.
cur == Len(requests)
request == requests[cur]

\* line 312: results_dir = spool_dir_ + job_id
ResultsDir(job_id) == "/spool/" \o ToString(job_id)

\* Mutant: the generator hands out the same identifier again.
getUUID_Repeated(n) == 1

\* UUID::getUUID, n-th call: an identifier no earlier call returned.
getUUID(n) == n

\* line 309: the job id of the request being processed (blocking requests
\* draw none, so the n-th request draws at most the n-th identifier).
job_id == getUUID(cur)

\* ---------------------------------------------------------------- dispatcher

\* processRequest is entered with the next request (lines 278-285).
processRequest ==
    /\ ~terminated
    /\ dpc = "idle"
    /\ Len(requests) < MaxRequests
    /\ \E r \in ActionRequests(Len(requests) + 1) :
          /\ requests' = Append(requests, r)
          /\ dpc' = IF r.type = "Blocking" THEN "blocking" ELSE "create_directory"
    /\ err_msg' = ""
    /\ caught' = ""
    /\ UNCHANGED <<spool, results_storage, task, done, thread_container, sent, connection_error, terminated>>

\* processBlockingRequest (lines 299-305): executeAction returns and the
\* blocking response is sent.
processBlockingRequest ==
    /\ ~terminated
    /\ dpc = "blocking"
    /\ \E outcome \in ActionOutcomes, ok \in Transport :
          replyBlockingResponse(cur, outcome.results, ok)
    /\ dpc' = "idle"
    /\ UNCHANGED <<requests, err_msg, caught, spool, results_storage, task, done,
                   thread_container, terminated>>

\* processBlockingRequest, line 302: executeAction raises a request_error,
\* which leaves processBlockingRequest.
processBlockingRequestRaises ==
    /\ ~terminated
    /\ dpc = "blocking"
    /\ \E what \in ExecErrors : caught' = what
    /\ dpc' = TopLevelHandler("request_error")
    /\ UNCHANGED <<requests, err_msg, spool, results_storage, task, done, thread_container,
                   sent, connection_error, terminated>>

\* processRequest's handler (lines 286-292): replyRPCError(request, e.what()).
catchRequestError ==
    /\ ~terminated
    /\ dpc = "catch"
    /\ \E ok \in Transport : replyRPCError(cur, "dispatcher", caught, ok)
    /\ dpc' = "idle"
    /\ UNCHANGED <<requests, err_msg, caught, spool, results_storage, task, done,
                   thread_container, terminated>>

\* processNonBlockingRequest, lines 309-322: the results directory is there
\* already, or FileUtils::createDirectory makes it.
createDirectory ==
    /\ ~terminated
    /\ dpc = "create_directory"
    /\ spool' = [spool EXCEPT ![job_id].dir = TRUE]
    /\ dpc' = "init_stdout"
    /\ UNCHANGED <<requests, err_msg, caught, results_storage, task, done, thread_container,
                   sent, connection_error, terminated>>

\* Mutant: the result of createDirectory is not checked.
createDirectoryFails_Ignored ==
    /\ ~terminated
    /\ dpc = "create_directory"
    /\ dpc' = "init_stdout"
    /\ UNCHANGED <<requests, err_msg, caught, spool, results_storage, task,
                   done, thread_container, sent, connection_error, terminated>>

\* lines 318-321: createDirectory fails and request_processing_error leaves
\* processNonBlockingRequest.
createDirectoryFails ==
    /\ ~terminated
    /\ dpc = "create_directory"
    /\ caught' = "failed to create directory '" \o ResultsDir(cur) \o "'"
    /\ dpc' = TopLevelHandler("request_processing_error")
    /\ UNCHANGED <<requests, err_msg, spool, results_storage, task, done, thread_container,
                   sent, connection_error, terminated>>

\* ResultsStorage::initialize, lines 101-103: the three writes, in order.
InitFile(pc) ==
    CASE pc = "init_stdout" -> "stdout"
      [] pc = "init_stderr" -> "stderr"
      [] pc = "init_status" -> "status"

InitText(pc, r) ==
    CASE pc = "init_stdout" -> ""
      [] pc = "init_stderr" -> ""
      [] pc = "init_status" -> InitialStatus(r)

\* Mutant: initialize leaves out the stderr artifact.
InitNext_SkipStderr(pc) ==
    CASE pc = "init_stdout" -> "init_status"
      [] pc = "init_stderr" -> "init_status"
      [] pc = "init_status" -> "start_thread"

InitNext(pc) ==
    CASE pc = "init_stdout" -> "init_stderr"
      [] pc = "init_stderr" -> "init_status"
      [] pc = "init_status" -> "start_thread"

\* line 338, ResultsStorage { request, results_dir }: one write of initialize.
initialize ==
    /\ ~terminated
    /\ dpc \in {"init_stdout", "init_stderr", "init_status"}
    /\ spool' = [spool EXCEPT
                    ![job_id] = writeToFile(@, InitFile(dpc),
                                            InitText(dpc, request))]
    /\ results_storage' =
          IF InitNext(dpc) = "start_thread"
          THEN results_storage \cup {job_id}
          ELSE results_storage
    /\ dpc' = InitNext(dpc)
    /\ UNCHANGED <<requests, err_msg, caught, task, done, thread_container,
                   sent, connection_error, terminated>>

\* A write of initialize raises file_error: the constructor is left, the
\* handler of line 342 sets err_msg; the files written before stay.
initializeRaises ==
    /\ ~terminated
    /\ dpc \in {"init_stdout", "init_stderr", "init_status"}
    /\ \E what \in FileErrors : err_msg' = SpawnErrorText("file_error", what)
    /\ dpc' = AfterSpawnError
    /\ UNCHANGED <<requests, caught, spool, results_storage, task, done, thread_container,
                   sent, connection_error, terminated>>

\* lines 334-341: std::thread starts nonBlockingActionTask with its own copy
\* of the request and the ResultsStorage, and thread_container_ takes the
\* thread and its flag.
startTask ==
    /\ ~terminated
    /\ dpc = "start_thread"
    /\ task' = [task EXCEPT ![cur] =
                   [pc |-> "execute", job_id |-> job_id, exec_error |-> "",
                    raised |-> FALSE, outcome |-> EmptyOutcome,
                    action_status |-> InitialStatus(request), writes |-> 0]]
    /\ thread_container' = thread_container \cup {cur}
    /\ dpc' = "provisional"
    /\ UNCHANGED <<requests, err_msg, caught, spool, results_storage, done, sent, connection_error, terminated>>

\* Mutant: the handler removes the job directory again.
startTaskRaises_Cleanup ==
    /\ ~terminated
    /\ dpc = "start_thread"
    /\ \E what \in ThreadErrors :
          err_msg' = SpawnErrorText("std::system_error", what)
    /\ spool' = [spool EXCEPT ![job_id] = NoDirectory]
    /\ dpc' = AfterSpawnError
    /\ UNCHANGED <<requests, caught, results_storage, task, done,
                   thread_container, sent, connection_error, terminated>>

\* The thread cannot be started: the handler of line 348 sets err_msg.
startTaskRaises ==
    /\ ~terminated
    /\ dpc = "start_thread"
    /\ \E what \in ThreadErrors :
          err_msg' = SpawnErrorText("std::system_error", what)
    /\ dpc' = AfterSpawnError
    /\ UNCHANGED <<requests, caught, spool, results_storage, task, done, thread_container,
                   sent, connection_error, terminated>>

\* Mutant: the dispatching thread joins the thread it started before it
\* replies.
sendProvisionalResponse_Joined ==
    /\ ~terminated
    /\ dpc = "provisional"
    /\ task[cur].pc \in {"none", "exited"}
    /\ \E ok \in Transport : replyProvisionalResponse(cur, job_id, err_msg, ok)
    /\ dpc' = "idle"
    /\ UNCHANGED <<requests, err_msg, caught, spool, results_storage, task, done,
                   thread_container, terminated>>

\* line 355: replyProvisionalResponse(request, job_id, err_msg), and
\* processNonBlockingRequest returns.
sendProvisionalResponse ==
    /\ ~terminated
    /\ dpc = "provisional"
    /\ \E ok \in Transport : replyProvisionalResponse(cur, job_id, err_msg, ok)
    /\ dpc' = "idle"
    /\ UNCHANGED <<requests, err_msg, caught, spool, results_storage, task, done,
                   thread_container, terminated>>

\* ---------------------------------------------------------------- task

\* line 122: executeAction returns an outcome.
executeAction(j) ==
    /\ ~terminated
    /\ task[j].pc = "execute"
    /\ \E outcome \in ActionOutcomes :
          task' = [task EXCEPT ![j].outcome = outcome,
                               ![j].pc = AfterExecute(requests[j].notify_outcome)]
    /\ UNCHANGED <<requests, dpc, err_msg, caught, spool, results_storage, done,
                   thread_container, sent, connection_error, terminated>>

\* line 122 raising request_error; line 130: exec_error = e.what().
executeActionRaises(j) ==
    /\ ~terminated
    /\ task[j].pc = "execute"
    /\ \E what \in ExecErrors :
          task' = [task EXCEPT ![j].exec_error = what,
                               ![j].raised = TRUE,
                               ![j].pc = TaskHandler("request_error")]
    /\ UNCHANGED <<requests, dpc, err_msg, caught, spool, results_storage, done,
                   thread_container, sent, connection_error, terminated>>

\* lines 124-128: notify_outcome is set, and the non-blocking response is sent.
notifyOutcome(j) ==
    /\ ~terminated
    /\ task[j].pc = "reply_nb"
    /\ \E ok \in Transport :
          replyNonBlockingResponse(j, task[j].outcome.results, task[j].job_id,
                                   ok)
    /\ task' = [task EXCEPT ![j].pc = "write_status"]
    /\ UNCHANGED <<requests, dpc, err_msg, caught, spool, results_storage, done,
                   thread_container, terminated>>

\* line 131: replyRPCError(request, exec_error), called by the task.
reportExecError(j) ==
    /\ ~terminated
    /\ task[j].pc = "reply_error"
    /\ \E ok \in Transport : replyRPCError(j, "task", task[j].exec_error, ok)
    /\ task' = [task EXCEPT ![j].pc = "write_status"]
    /\ UNCHANGED <<requests, dpc, err_msg, caught, spool, results_storage, done,
                   thread_container, terminated>>

\* ResultsStorage::write (lines 58-79): the file each position writes.
WriteFile(pc) ==
    CASE pc = "write_status" -> "status"
      [] pc = "write_stdout" -> "stdout"
      [] pc = "write_stderr" -> "stderr"

\* The text each position writes (lines 62, 66, 68, 72, 75-77).
WriteText(pc, t, duration) ==
    CASE pc = "write_status" -> CompletedStatus(t.action_status, duration)
      [] pc = "write_stdout" ->
            IF t.outcome.type = "External"
            THEN t.outcome.stdout \o "\n"
            ELSE t.outcome.results \o "\n"
      [] pc = "write_stderr" ->
            IF t.exec_error = ""
            THEN t.outcome.stderr \o "\n"
            ELSE FailureText(t.action_status.module, t.action_status.action,
                             t.exec_error)

\* Mutant: the stderr artifact is rewritten whatever was captured.
WriteNext_AlwaysStderr(pc, t) ==
    CASE pc = "write_status" ->
            IF t.exec_error = "" THEN "write_stdout" ELSE "write_stderr"
      [] pc = "write_stdout" -> "write_stderr"
      [] pc = "write_stderr" -> "set_done"

\* The branches of write (lines 64-78): the position after each write.
WriteNext(pc, t) ==
    CASE pc = "write_status" ->
            IF t.exec_error = "" THEN "write_stdout" ELSE "write_stderr"
      [] pc = "write_stdout" ->
            IF t.outcome.type = "External" /\ t.outcome.stderr # ""
            THEN "write_stderr"
            ELSE "set_done"
      [] pc = "write_stderr" -> "set_done"

WritePositions == {"write_status", "write_stdout", "write_stderr"}

\* line 136: the calls of results_storage.write so far, once the statement at
\* position pc has run; the call begins with the status write (line 62).
WriteCalls(pc, n) == IF pc = "write_status" THEN n + 1 ELSE n

\* lines 135-136: results_storage.write(outcome, exec_error, duration), one
\* writeToFile at a time.
write(j) ==
    /\ ~terminated
    /\ task[j].pc \in WritePositions
    /\ \E seconds \in ElapsedSeconds, type \in OutcomeTypes(task[j].outcome) :
          LET t == [task[j] EXCEPT !.outcome.type = type] IN
          /\ spool' = [spool EXCEPT ![task[j].job_id] =
                         writeToFile(@, WriteFile(task[j].pc),
                                     WriteText(task[j].pc, t,
                                               DurationText(seconds)))]
          /\ task' = [task EXCEPT ![j].pc = WriteNext(task[j].pc, t),
                                 ![j].writes = WriteCalls(task[j].pc, @)]
    /\ UNCHANGED <<requests, dpc, err_msg, caught, results_storage, done, thread_container,
                   sent, connection_error, terminated>>

\* A writeToFile of write raises file_error.  No handler is in reach: the
\* exception leaves the thread function and std::terminate ends the process.
writeRaises(j) ==
    /\ ~terminated
    /\ task[j].pc \in WritePositions
    /\ task' = [task EXCEPT ![j].pc = "aborted",
                           ![j].writes = WriteCalls(task[j].pc, @)]
    /\ terminated' = TRUE
    /\ UNCHANGED <<requests, dpc, err_msg, caught, spool, results_storage, done,
                   thread_container, sent, connection_error>>

\* Mutant: the flag is set before the results are stored.
setDone_Early(j) ==
    /\ ~terminated
    /\ task[j].pc = "write_status"
    /\ ~done[j]
    /\ done' = [done EXCEPT ![j] = TRUE]
    /\ UNCHANGED <<requests, dpc, err_msg, caught, spool, results_storage, task,
                   thread_container, sent, connection_error, terminated>>

\* line 139: *done = true, and the thread function returns.
setDone(j) ==
    /\ ~terminated
    /\ task[j].pc = "set_done"
    /\ done' = [done EXCEPT ![j] = TRUE]
    /\ task' = [task EXCEPT ![j].pc = "exited"]
    /\ UNCHANGED <<requests, dpc, err_msg, caught, spool, results_storage, thread_container,
                   sent, connection_error, terminated>>

nonBlockingActionTask(j) ==
    \/ executeAction(j)
    \/ executeActionRaises(j)
    \/ notifyOutcome(j)
    \/ reportExecError(j)
    \/ write(j)
    \/ writeRaises(j)
    \/ setDone(j)

\* ---------------------------------------------------------------- system

Next ==
    \/ processRequest
    \/ processBlockingRequest
    \/ processBlockingRequestRaises
    \/ catchRequestError
    \/ createDirectory
    \/ createDirectoryFails
    \/ initialize
    \/ initializeRaises
    \/ startTask
    \/ startTaskRaises
    \/ sendProvisionalResponse
    \/ \E j \in Jobs : nonBlockingActionTask(j)

Spec == Init /\ [][Next]_vars

\* The statements of processRequest, from its entry to its return.
Dispatching ==
    \/ processBlockingRequest
    \/ processBlockingRequestRaises
    \/ catchRequestError
    \/ createDirectory
    \/ createDirectoryFails
    \/ initialize
    \/ initializeRaises
    \/ startTask
    \/ startTaskRaises
    \/ sendProvisionalResponse

\* The dispatching thread runs on: processRequest makes only synchronous calls
\* (directory and file creation, thread start, connector send) and has no
\* wait or join.  Nothing is assumed of the tasks: executeAction may never
\* return.
FairSpec == Spec /\ WF_vars(Dispatching)

\* ---------------------------------------------------------------- properties

\* The requests handed to processRequest so far.
Received == 1..Len(requests)

NonBlockingRequests == {r \in Received : requests[r].type = "NonBlocking"}
BlockingRequests == {r \in Received : requests[r].type = "Blocking"}

\* processRequest has returned for request r.
Processed(r) == r < cur \/ (r = cur /\ dpc = "idle")

\* The positions in sent[r] of the attempts of one message type.
Attempts(r, type) == {i \in DOMAIN sent[r] : sent[r][i].type = type}

\* The positions in sent[r] of the attempts made by the job's task.
TaskAttempts(r) == {i \in DOMAIN sent[r] : sent[r][i].by = "task"}

\* The status document of job j is on disk and reads the given status.
StatusReads(j, status) ==
    "status" \in spool[j].present /\ spool[j].status.status = status

\* C1: in every reachable state, a job whose status document reads completed
\* has had its provisional reply attempted.
C1_CompletedOnlyAfterProvisional ==
    \A j \in Received :
        StatusReads(j, "completed") => Attempts(j, "provisional_response") # {}

\* C2: in every reachable state, every reply sent by a job's task comes after
\* the provisional reply of that request in the order of the send attempts.
C2_ProvisionalBeforeTaskReply ==
    \A r \in Received :
        \A i \in TaskAttempts(r) :
            \E k \in Attempts(r, "provisional_response") : k < i

\* C3: in every reachable state, a task that has left its thread function, on
\* whichever path, has set its completion flag.
C3_FlagSetOnEveryExit ==
    \A j \in Jobs : task[j].pc \in {"exited", "aborted"} => done[j]

\* The positions in sent[r] of the attempts made by the dispatching thread.
DispatcherAttempts(r) == {i \in DOMAIN sent[r] : sent[r][i].by = "dispatcher"}

\* The task of job j is past its try block (line 133 and later).
PastReply(j) ==
    task[j].pc \in WritePositions \cup {"set_done", "exited", "aborted"}

\* C4: a blocking request gets one reply send in total, to request.sender
\* alone: a blocking response with transaction_id and results when
\* executeAction returned, an RPC error when it raised; no provisional or
\* non-blocking response, no job directory, no job-record file, no task.
C4_BlockingOneReply ==
    \A r \in BlockingRequests :
        /\ Len(sent[r]) <= 1
        /\ Processed(r) => Len(sent[r]) = 1
        /\ \A i \in DOMAIN sent[r] :
              LET m == sent[r][i] IN
              /\ m.to = <<requests[r].sender>>
              /\ m.by = "dispatcher"
              /\ m.type \in {"blocking_response", "rpc_error"}
              /\ m.data.transaction_id = requests[r].transactionId
              /\ m.type = "blocking_response" =>
                    /\ DOMAIN m.data = {"transaction_id", "results"}
                    /\ m.data.results \in {o.results : o \in ActionOutcomes}
                    /\ r = cur => caught = ""
              /\ m.type = "rpc_error" =>
                    /\ m.data.description \in ExecErrors
                    /\ r = cur => caught = m.data.description
        /\ spool[r] = NoDirectory
        /\ r \notin results_storage
        /\ task[r].pc = "none"
        /\ r \notin thread_container

\* Reached: one blocking request answered with a blocking response and another
\* answered with an RPC error.
C4_Witness ==
    \E r1, r2 \in BlockingRequests :
        /\ Processed(r1) /\ Processed(r2)
        /\ Attempts(r1, "blocking_response") # {}
        /\ Attempts(r2, "rpc_error") # {}

\* C5: a non-blocking request whose results directory is there gets one
\* provisional reply send, whether the spawn succeeded or failed: never more
\* than one, and exactly one once processRequest has returned.
C5_OneProvisional ==
    \A r \in NonBlockingRequests :
        spool[r].dir =>
            /\ Cardinality(Attempts(r, "provisional_response")) <= 1
            /\ Processed(r) => Cardinality(Attempts(r, "provisional_response")) = 1

\* Reached: processRequest has returned for a request whose spawn failed and
\* for a request whose task was started, each with its provisional reply.
C5_Witness ==
    \E r1, r2 \in NonBlockingRequests :
        /\ Processed(r1) /\ Processed(r2)
        /\ spool[r1].dir /\ task[r1].pc = "none"
        /\ task[r2].pc # "none"
        /\ Attempts(r1, "provisional_response") # {}
        /\ Attempts(r2, "provisional_response") # {}

\* C6: the success flag of a provisional reply is true iff the job record was
\* initialized and a task for the job was started and handed to the thread
\* container; a reply with success false carries an error text and its job
\* never has a task.
C6_SuccessIffSpawned ==
    \A r \in NonBlockingRequests :
        \A i \in Attempts(r, "provisional_response") :
            LET d == sent[r][i].data IN
            /\ d.success <=> /\ r \in results_storage
                             /\ task[r].pc # "none"
                             /\ r \in thread_container
            /\ d.success => d.error = ""
            /\ ~d.success => d.error # "" /\ task[r].pc = "none"
            /\ d.job_id = r

\* Reached: a provisional reply with success false for a job whose record was
\* initialized (the thread did not start), and one with success true.
C6_Witness ==
    \E r1, r2 \in NonBlockingRequests :
        /\ r1 \in results_storage
        /\ \E i \in Attempts(r1, "provisional_response") :
              ~sent[r1][i].data.success
        /\ \E i \in Attempts(r2, "provisional_response") :
              sent[r2][i].data.success

\* C7: a job's task sends at most one reply: once it is past its try block it
\* has sent a non-blocking response iff executeAction returned and
\* notify_outcome is set, and an RPC error to the sender iff executeAction
\* raised; before that it has sent nothing.
C7_TaskRepliesOnce ==
    \A j \in Jobs :
        /\ Cardinality(TaskAttempts(j)) <= 1
        /\ \A i \in TaskAttempts(j) :
              /\ sent[j][i].type \in {"non_blocking_response", "rpc_error"}
              /\ sent[j][i].to = <<requests[j].sender>>
        /\ ~PastReply(j) => TaskAttempts(j) = {}
        /\ PastReply(j) =>
              /\ (\E i \in TaskAttempts(j) :
                      sent[j][i].type = "non_blocking_response")
                  <=> (~task[j].raised /\ requests[j].notify_outcome)
              /\ (\E i \in TaskAttempts(j) : sent[j][i].type = "rpc_error")
                  <=> task[j].raised

\* Reached: a task that has exited after a non-blocking response, one after an
\* RPC error.
C7_Witness ==
    \E j1, j2 \in Jobs :
        /\ task[j1].pc = "exited" /\ task[j2].pc = "exited"
        /\ \E i \in TaskAttempts(j1) : sent[j1][i].type = "non_blocking_response"
        /\ \E i \in TaskAttempts(j2) : sent[j2][i].type = "rpc_error"

\* Directory creation has failed for non-blocking request r.
DirectoryFailed(r) ==
    /\ r \in NonBlockingRequests
    /\ ~spool[r].dir
    /\ r < cur \/ dpc # "create_directory"

\* C8: when directory creation fails for a non-blocking request, the only send
\* is one RPC error that names the directory: no provisional reply, no
\* job-record file, no task.
C8_DirectoryFailure ==
    \A r \in Received :
        DirectoryFailed(r) =>
            /\ Len(sent[r]) <= 1
            /\ Processed(r) => Len(sent[r]) = 1
            /\ \A i \in DOMAIN sent[r] :
                  /\ sent[r][i].type = "rpc_error"
                  /\ sent[r][i].by = "dispatcher"
                  /\ sent[r][i].to = <<requests[r].sender>>
                  /\ sent[r][i].data.description =
                        "failed to create directory '" \o ResultsDir(r) \o "'"
            /\ spool[r] = NoDirectory
            /\ r \notin results_storage
            /\ task[r].pc = "none"
            /\ r \notin thread_container

\* Reached: processRequest has returned for a request whose directory could
\* not be created, after its RPC error.
C8_Witness ==
    \E r \in Received :
        DirectoryFailed(r) /\ Processed(r) /\ Attempts(r, "rpc_error") # {}

\* The task of job j has not yet made the status write of
\* ResultsStorage::write (line 62).
BeforeFinalize(j) ==
    task[j].pc \in {"none", "execute", "reply_nb", "reply_error", "write_status"}

\* The state part of C9: the three artifacts are all on disk iff initialize
\* went through; then the status document reads running or completed, and
\* running with duration "0 s" as long as write has not rewritten it.
JobRecordInvariant ==
    \A j \in Jobs :
        /\ (FileNames \subseteq spool[j].present) <=> j \in results_storage
        /\ j \in results_storage =>
              /\ spool[j].status.status \in {"running", "completed"}
              /\ BeforeFinalize(j) =>
                    /\ spool[j].status.status = "running"
                    /\ spool[j].status.duration = "0 s"

\* The step part of C9: an initialized record stays initialized with its
\* status document on disk, and a status of completed stays completed.
JobRecordStep ==
    \A j \in Jobs :
        /\ j \in results_storage =>
              (j \in results_storage /\ "status" \in spool[j].present)'
        /\ StatusReads(j, "completed") => StatusReads(j, "completed")'

\* C9: status, stdout and stderr all exist iff job-record initialization
\* succeeded; from then on the status document exists in every later state,
\* reads running with duration "0 s" until finalize and never goes back from
\* completed to running.
C9_JobRecord == [](JobRecordInvariant) /\ [][JobRecordStep]_vars

\* Reached: an initialized job record whose status document finalize has
\* turned to completed.
C9_Witness ==
    \E j \in Jobs :
        /\ j \in results_storage
        /\ ~BeforeFinalize(j)
        /\ StatusReads(j, "completed")

MessageTypes ==
    {"rpc_error", "blocking_response", "provisional_response",
     "non_blocking_response"}

\* The state part of C10: every reply is sent at most once per request, also
\* when the transport raised; the thread whose send raised last went on as
\* after a delivered send: a task to ResultsStorage::write and its flag
\* (status completed once write is through, flag set once it has exited), the
\* dispatching thread to the return of processRequest with no further send.
AbsorbedInvariant ==
    /\ \A r \in Received :
          \A type \in MessageTypes : Cardinality(Attempts(r, type)) <= 1
    /\ connection_error.by = "task" =>
          LET j == connection_error.request IN
          /\ Cardinality(TaskAttempts(j)) = 1
          /\ PastReply(j)
          /\ task[j].pc \in {"set_done", "exited"} => StatusReads(j, "completed")
          /\ task[j].pc = "exited" => done[j]
    /\ connection_error.by = "dispatcher" =>
          LET r == connection_error.request IN
          /\ Cardinality(DispatcherAttempts(r)) = 1
          /\ Processed(r)

\* The step part of C10: the step in which a send raises connection_error
\* takes the sending thread where a delivered send takes it, a task to its
\* ResultsStorage::write and the dispatching thread out of processRequest,
\* and the process lives on.
AbsorbedStep ==
    connection_error' # connection_error =>
        /\ ~terminated'
        /\ connection_error'.by = "task" =>
              task'[connection_error'.request].pc = "write_status"
        /\ connection_error'.by = "dispatcher" => dpc' = "idle"

\* C10: a connection error in any reply send is absorbed by the reply
\* operation: one attempt, no retry, no error at the caller, which goes on as
\* if the send had been delivered; a task whose reply send raised still
\* finalizes its job record and sets its flag, and processRequest sends no
\* further reply.
C10_TransportFailureAbsorbed == [](AbsorbedInvariant) /\ [][AbsorbedStep]_vars

\* Reached: a task whose reply send raised connection_error has finalized its
\* job record, set its flag and exited.
C10_Witness ==
    /\ connection_error.by = "task"
    /\ task[connection_error.request].pc = "exited"
    /\ done[connection_error.request]
    /\ StatusReads(connection_error.request, "completed")

\* The positions in which the dispatching thread creates and initializes the
\* job directory of the request it is processing.
InitPositions == {"create_directory", "init_stdout", "init_stderr", "init_status"}

\* The state part of C11: no two tasks hold the same job directory, and the
\* directory the dispatching thread is initializing is neither an initialized
\* job record nor the directory of any task.
ExclusiveWriterInvariant ==
    /\ \A j1, j2 \in Jobs :
          (j1 # j2 /\ task[j1].pc # "none" /\ task[j2].pc # "none")
              => task[j1].job_id # task[j2].job_id
    /\ dpc \in InitPositions =>
          /\ job_id \notin results_storage
          /\ \A j \in Jobs : task[j].pc # "none" => task[j].job_id # job_id

\* The step part of C11: a step that changes an initialized job record is a
\* step of ResultsStorage::write in the one task that holds this job id; the
\* dispatching thread and the other tasks stand still in it.
ExclusiveWriterStep ==
    \A d \in Jobs :
        (d \in results_storage /\ spool'[d] # spool[d]) =>
            \E j \in Jobs :
                /\ task[j].job_id = d
                /\ task[j].pc \in WritePositions
                /\ task'[j].pc # task[j].pc
                /\ dpc' = dpc
                /\ \A k \in Jobs \ {j} : task'[k] = task[k]

\* C11: with fresh job ids, an initialized job record is written by its own
\* task alone: no two tasks write the same job directory, and neither the
\* dispatching thread nor another job's task writes it after initialization.
C11_ExclusiveWriter ==
    [](ExclusiveWriterInvariant) /\ [][ExclusiveWriterStep]_vars

\* Reached: two tasks have each finalized the job record of their own job.
C11_Witness ==
    \E j1, j2 \in Jobs :
        /\ j1 # j2
        /\ task[j1].pc = "exited" /\ task[j2].pc = "exited"
        /\ task[j1].job_id # task[j2].job_id
        /\ StatusReads(task[j1].job_id, "completed")
        /\ StatusReads(task[j2].job_id, "completed")

\* The state part of C12: a task has called ResultsStorage::write once when
\* it is past the status write, on whichever path it got there, and not at all
\* before.
FinalizeOnceInvariant ==
    \A j \in Jobs :
        /\ task[j].writes <= 1
        /\ BeforeFinalize(j) => task[j].writes = 0
        /\ ~BeforeFinalize(j) => task[j].writes = 1

\* The step part of C12: a task whose executeAction has returned or raised a
\* request_error goes on to its reply, if one is due, and from there to
\* ResultsStorage::write; it neither returns without the call nor makes it a
\* second time.
FinalizeOnceStep ==
    \A j \in Jobs :
        /\ (task[j].pc = "execute" /\ task'[j].pc # "execute") =>
              task'[j].pc \in {"reply_nb", "reply_error", "write_status"}
        /\ (task[j].pc \in {"reply_nb", "reply_error"} /\ task'[j].pc # task[j].pc)
              => task'[j].pc = "write_status"
        /\ task[j].writes = 1 => task'[j].writes = 1

\* C12: ResultsStorage::write is called exactly once per task execution, when
\* executeAction returned and when it raised a request_error: never twice, and
\* never skipped by a task whose executeAction has ended.
C12_FinalizeOnce == [](FinalizeOnceInvariant) /\ [][FinalizeOnceStep]_vars

\* Reached: a task whose executeAction raised and a task whose executeAction
\* returned have both exited, each after one call of write.
C12_Witness ==
    \E j1, j2 \in Jobs :
        /\ task[j1].pc = "exited" /\ task[j1].raised /\ task[j1].writes = 1
        /\ task[j2].pc = "exited" /\ ~task[j2].raised /\ task[j2].writes = 1

\* The task of job j has returned from ResultsStorage::write.
Finalized(j) == task[j].pc \in {"set_done", "exited"}

\* C13: for every message M, when executeAction raised a request_error with
\* what() = M, after finalize the status document reads completed, the stderr
\* artifact is "Failed to execute '<module> <action>': M" and a newline, and
\* the stdout artifact is still empty.
C13_ErrorArtifacts ==
    \A j \in Jobs :
        (task[j].raised /\ Finalized(j)) =>
            LET d == spool[task[j].job_id] IN
            /\ StatusReads(task[j].job_id, "completed")
            /\ d.stderr = "Failed to execute '" \o requests[j].module \o " "
                              \o requests[j].action \o "': "
                              \o task[j].exec_error \o "\n"
            /\ d.stdout = ""

\* C14: when executeAction returned, finalize writes status completed first;
\* once it is through, for an External outcome stdout is the captured standard
\* output and a newline, and stderr is the captured standard error and a
\* newline if that is non-empty and still empty otherwise; for an Internal
\* outcome stdout is the result document and a newline and stderr still empty.
C14_SuccessArtifacts ==
    \A j \in Jobs :
        LET o == task[j].outcome
            d == spool[task[j].job_id]
        IN  /\ (~task[j].raised /\ task[j].pc \in {"write_stdout", "write_stderr"})
                  => StatusReads(task[j].job_id, "completed")
            /\ (~task[j].raised /\ Finalized(j)) =>
                  /\ StatusReads(task[j].job_id, "completed")
                  /\ o.type = "External" =>
                        /\ d.stdout = o.stdout \o "\n"
                        /\ o.stderr # "" => d.stderr = o.stderr \o "\n"
                        /\ o.stderr = "" => d.stderr = ""
                  /\ o.type = "Internal" =>
                        /\ d.stdout = o.results \o "\n"
                        /\ d.stderr = ""

\* Reached: a finalized External outcome with stdout "X" and no standard
\* error, whose artifacts read "X\n" and "", and a finalized Internal outcome.
C14_Witness ==
    \E j1, j2 \in Jobs :
        /\ ~task[j1].raised /\ Finalized(j1)
        /\ task[j1].outcome.type = "External"
        /\ task[j1].outcome.stdout = "X" /\ task[j1].outcome.stderr = ""
        /\ spool[task[j1].job_id].stdout = "X\n"
        /\ spool[task[j1].job_id].stderr = ""
        /\ ~task[j2].raised /\ Finalized(j2)
        /\ task[j2].outcome.type = "Internal"
        /\ spool[task[j2].job_id].stdout = task[j2].outcome.results \o "\n"

\* The spawn of non-blocking request r has failed: its directory is there, the
\* spawn try block is behind, and no thread was started.
SpawnFailed(r) ==
    /\ r \in NonBlockingRequests
    /\ spool[r].dir
    /\ task[r].pc = "none"
    /\ r < cur \/ dpc \in {"provisional", "idle"}

\* The texts the handlers of the spawn try block make.
SpawnFailureTexts ==
    {"failed to initialize result files: " \o what : what \in FileErrors}
    \cup {"failed to start action task: " \o what : what \in ThreadErrors}

\* The state part of C15: after a failed spawn there is no RPC error for the
\* request and no request error in flight, the failure text is in err_msg, and
\* once processRequest has returned the one send of the request is a
\* provisional reply with success false that carries the text.
SpawnFailureInvariant ==
    \A r \in Received :
        SpawnFailed(r) =>
            /\ Attempts(r, "rpc_error") = {}
            /\ r = cur => caught = "" /\ err_msg \in SpawnFailureTexts
            /\ Processed(r) =>
                  /\ Len(sent[r]) = 1
                  /\ sent[r][1].type = "provisional_response"
                  /\ ~sent[r][1].data.success
                  /\ sent[r][1].data.error \in SpawnFailureTexts

\* The step part of C15: from inside the spawn try block the dispatching
\* thread goes on in the block or to the provisional reply, never to the
\* top-level handler and never out of processRequest by an exception.
SpawnFailureStep ==
    dpc \in {"init_stdout", "init_stderr", "init_status", "start_thread"} =>
        dpc' \in {"init_stdout", "init_stderr", "init_status", "start_thread",
                  "provisional"}

\* C15: a failure during the spawn of a non-blocking request (initialize
\* raising file_error, or the thread not starting) never reaches the top-level
\* handler: no RPC error is sent for it, its text goes into the provisional
\* reply, and processRequest returns normally.
C15_SpawnFailureFolded ==
    [](SpawnFailureInvariant) /\ [][SpawnFailureStep]_vars

\* Reached: processRequest has returned for a request whose initialize raised
\* and for one whose thread did not start, each with its provisional reply.
C15_Witness ==
    \E r1, r2 \in Received :
        /\ SpawnFailed(r1) /\ Processed(r1) /\ r1 \notin results_storage
        /\ SpawnFailed(r2) /\ Processed(r2) /\ r2 \in results_storage
        /\ Attempts(r1, "provisional_response") # {}
        /\ Attempts(r2, "provisional_response") # {}

\* The state part of C16: while the process lives, the dispatching thread
\* inside processRequest has a statement it can run, and an idle dispatching
\* thread can take the next request, wherever the tasks are.
DispatchNeverWaits ==
    ~terminated =>
        /\ dpc # "idle" => ENABLED Dispatching
        /\ (dpc = "idle" /\ Len(requests) < MaxRequests) => ENABLED processRequest

\* The temporal part of C16: processRequest, once entered for a non-blocking
\* request, gets to the provisional reply and returns, unless the process is
\* ended meanwhile; no task has to take a step for it.
DispatchReturns ==
    \A n \in Jobs :
        (cur = n /\ dpc \in {"start_thread", "provisional"})
            ~> \/ Processed(n) /\ Attempts(n, "provisional_response") # {}
               \/ terminated

\* C16: the dispatch of a non-blocking request never waits for executeAction:
\* processRequest attempts the provisional reply and returns even if the
\* task's executeAction never returns, and further requests are dispatched
\* while that task is still running.
C16_DispatchNeverWaits == [](DispatchNeverWaits) /\ DispatchReturns

\* Reached: processRequest has returned for two requests, each with its
\* provisional reply, while the task of the first is still in executeAction.
C16_Witness ==
    /\ Len(requests) = MaxRequests
    /\ \A r \in Received : Processed(r)
    /\ task[1].pc = "execute"
    /\ Attempts(1, "provisional_response") # {}
    /\ Attempts(MaxRequests, "provisional_response") # {}

\* The reply sends the task of job j has made, in order.
TaskSends(j) == SelectSeq(sent[j], LAMBDA m : m.by = "task")

\* The state part of C17: a flag reads true only for a task that has left its
\* thread function after ResultsStorage::write, with the status document of
\* its job reading completed; the flag of every other job reads false.
FlagLastInvariant ==
    \A j \in Jobs :
        /\ done[j] =>
              /\ task[j].pc = "exited"
              /\ j \in thread_container
              /\ StatusReads(task[j].job_id, "completed")
        /\ task[j].pc \in {"none", "execute"} => ~done[j]

\* The step part of C17: the flag of a job is set by the last statement of
\* that job's task and by nothing else, one flag per step; a thread is started
\* with a flag that reads false; once a flag reads true it stays true and the
\* task sends no reply and writes no file any more.
FlagLastStep ==
    \A j \in Jobs :
        /\ (~done[j] /\ done'[j]) =>
              /\ task[j].pc = "set_done" /\ task'[j].pc = "exited"
              /\ \A k \in Jobs \ {j} : done'[k] = done[k]
        /\ (task[j].pc = "none" /\ task'[j].pc # "none") => ~done'[j]
        /\ done[j] =>
              /\ done'[j]
              /\ task'[j] = task[j]
              /\ TaskSends(j)' = TaskSends(j)
              /\ spool'[task[j].job_id] = spool[task[j].job_id]

\* C17: setting the flag is the last thing a task does: every thread is
\* started with a flag of its own that reads false; a flag that reads true
\* implies that the job's status document reads completed and that the task
\* makes no further reply send or file write.
C17_FlagLast == [](FlagLastInvariant) /\ [][FlagLastStep]_vars

\* Reached: a task has set its flag after sending its reply and finalizing,
\* while the task of another job, with a flag of its own, is still running.
C17_Witness ==
    \E j1, j2 \in Jobs :
        /\ done[j1] /\ task[j1].pc = "exited" /\ TaskSends(j1) # <<>>
        /\ StatusReads(task[j1].job_id, "completed")
        /\ ~done[j2] /\ task[j2].pc \in WritePositions

\* The task of job j owes a reply: executeAction raised a request_error, or it
\* returned and notify_outcome is set.
ReplyDue(j) ==
    /\ task[j].pc \notin {"none", "execute"}
    /\ task[j].raised \/ requests[j].notify_outcome

\* C18: within a task the reply (non-blocking response or RPC error) is
\* attempted before the job record is finalized: while a task has sent its
\* reply and not yet made the status write of finalize, the status document
\* reads running; and when it reads completed, the reply, if one is due, has
\* been attempted.
C18_ReplyBeforeFinalize ==
    \A j \in Jobs :
        task[j].pc # "none" =>
            /\ (TaskSends(j) # <<>> /\ BeforeFinalize(j))
                  => StatusReads(task[j].job_id, "running")
            /\ StatusReads(task[j].job_id, "completed")
                  => /\ ~BeforeFinalize(j)
                     /\ ReplyDue(j) => Len(TaskSends(j)) = 1

\* Reached: a task has sent its reply and stands before the status write of
\* finalize, the status document still reading running.
C18_Witness ==
    \E j \in Jobs :
        /\ task[j].pc = "write_status"
        /\ Len(TaskSends(j)) = 1
        /\ StatusReads(task[j].job_id, "running")

\* C19: finalize writes the status document before the stdout and stderr
\* artifacts: in every reachable state a non-empty stdout or stderr artifact
\* implies that the status document of that job reads completed.
C19_StatusBeforeOutput ==
    \A d \in Jobs :
        (spool[d].stdout # "" \/ spool[d].stderr # "")
            => StatusReads(d, "completed")

\* Reached, the converse failing: the status document reads completed while
\* stdout and stderr are still empty, although the outcome has standard output
\* and standard error to record.
C19_Witness ==
    \E j \in Jobs :
        /\ task[j].pc = "write_stdout"
        /\ task[j].outcome.stdout # "" /\ task[j].outcome.stderr # ""
        /\ StatusReads(task[j].job_id, "completed")
        /\ spool[task[j].job_id].stdout = ""
        /\ spool[task[j].job_id].stderr = ""

\* The state part of C20: when the job record of request r was initialized
\* and the thread did not start, the record is as initialize left it (status
\* running, duration "0 s", stdout and stderr empty), there is no thread and
\* no flag set for the job, and its provisional reply says success false.
OrphanRecordInvariant ==
    \A r \in Received :
        (SpawnFailed(r) /\ r \in results_storage) =>
            /\ FileNames \subseteq spool[r].present
            /\ StatusReads(r, "running")
            /\ spool[r].status.duration = "0 s"
            /\ spool[r].stdout = "" /\ spool[r].stderr = ""
            /\ r \notin thread_container /\ ~done[r]
            /\ \A i \in Attempts(r, "provisional_response") :
                  ~sent[r][i].data.success
            /\ Processed(r) => Attempts(r, "provisional_response") # {}

\* The step part of C20: a failed spawn stays failed, no task being started
\* for the job later, and its directory stays as it is, whether initialize
\* went through or raised part-way; no step removes a job directory or a file
\* in it.
OrphanRecordStep ==
    /\ \A r \in Received :
          SpawnFailed(r) => SpawnFailed(r)' /\ spool'[r] = spool[r]
    /\ \A d \in Jobs :
          /\ spool[d].dir => spool'[d].dir
          /\ spool[d].present \subseteq spool'[d].present

\* C20: when the job record was initialized and the thread then fails to
\* start, the provisional reply carries success false and no task ever runs:
\* the status document stays at running and stdout and stderr stay empty; and
\* after an initialize that raised part-way the files written before stay in
\* place: a failed spawn cleans nothing up.
C20_NoCleanup == [](OrphanRecordInvariant) /\ [][OrphanRecordStep]_vars

\* Reached: processRequest has returned for a request whose thread did not
\* start, its record initialized and at running, and for a request whose
\* initialize raised at the status write, stdout and stderr left behind.
C20_Witness ==
    \E r1, r2 \in Received :
        /\ SpawnFailed(r1) /\ Processed(r1) /\ r1 \in results_storage
        /\ StatusReads(r1, "running")
        /\ \E i \in Attempts(r1, "provisional_response") :
              ~sent[r1][i].data.success
        /\ SpawnFailed(r2) /\ Processed(r2)
        /\ spool[r2].present = {"stdout", "stderr"}

====
